---------------------------- MODULE Spec2Model ----------------------------
(***************************************************************************)
(* Model of the Navigator tree state engine of swift-docc-render:          *)
(* src/components/Navigator/NavigatorCard.vue, with the provider of the    *)
(* tree (NavigatorDataProvider) and the shell of the sidebar               *)
(* (AdjustableSidebarWidth) that surround it.                              *)
(*                                                                         *)
(* A flat node is a record [uid, parent, childUIDs, path, title, type].    *)
(* uids are positive integers; strings that the code matches against       *)
(* (titles, filter text) are sequences of one-character strings.           *)
(* Vue runs the watchers of a component in a microtask right after the     *)
(* handler that changed the data, before any other event is delivered, so  *)
(* every action below is the handler followed by its watcher flush.        *)
(***************************************************************************)
EXTENDS Integers, Sequences, FiniteSets, TLC

VARIABLES
    technology,       \* prop `technology`
    children,         \* prop `children`: the flat list of nodes
    activePath,       \* prop `activePath`: sequence of path segments
    filter,           \* data `filter` (v-model of the input)
    debouncedFilter,  \* data `debouncedFilter`
    selectedTags,     \* data `selectedTags`
    openNodes,        \* data `openNodes`: the uids whose key is set
    nodesToRender,    \* data `nodesToRender`, as the sequence of uids
    storage,          \* the session storage keys of STORAGE_KEYS
    timer,            \* the pending call of the debounced `debounceInput`
    mounted,          \* whether the `created` hook has run
    frames,           \* whether calls of `scrollToElement` wait for their frame
    scrolled,         \* the index the last step passed to `scrollToItem`, if any
    last              \* the handler that ran last, and whether it generated the nodes

\* NavigatorDataProvider
VARIABLES
    interfaceLanguage,  \* prop `interfaceLanguage`
    technologyUrl,      \* prop `technology`, its url
    providerMounted,    \* whether the provider is mounted
    fetchCalls,         \* the number of calls of `fetchIndexPathsData`
    request,            \* the request: "none", "pending", "resolved", "rejected"
    isFetching,         \* data `isFetching`
    errorFetching,      \* data `errorFetching`
    navigationIndex     \* the lists of the response, by interface language

\* AdjustableSidebarWidth
VARIABLES
    sidebarPhase,     \* "created" (after `data()`), "mounted" or "destroyed"
    openExternally,   \* prop `openExternally`
    container,        \* whether the element with the id `scrollLockID` is in the document
    width,            \* data `width`
    isDragging,       \* data `isDragging`
    isTouch,          \* data `isTouch`
    windowWidth,      \* data `windowWidth`
    breakpoint,       \* data `breakpoint`
    sidebarStorage,   \* the storage key 'sidebar': << >> or << width >>
    listeners,        \* the events of the document that `startDrag` listens to
    checkPending,     \* the pending call of the debounced `getWidthInCheck`
    engaged,          \* what `toggleScrollLock` has switched on
    emitted           \* the events the last handler emitted

cardVars == << technology, children, activePath, filter, debouncedFilter,
               selectedTags, openNodes, nodesToRender, storage, timer, mounted,
               frames, scrolled, last >>

providerVars == << interfaceLanguage, technologyUrl, providerMounted, fetchCalls,
                   request, isFetching, errorFetching, navigationIndex >>

sidebarVars == << sidebarPhase, openExternally, container, width, isDragging, isTouch,
                  windowWidth, breakpoint, sidebarStorage, listeners, checkPending,
                  engaged, emitted >>

vars == << cardVars, providerVars, sidebarVars >>

-----------------------------------------------------------------------------
(* Bounds of the model *)

\* largest number of segments of an active path
MaxPathLen == 3

-----------------------------------------------------------------------------
(* Constants of the program *)

INDEX_ROOT_KEY == 0

FILTER_TAGS == {"sampleCode", "tutorials", "articles"}

FILTER_TAGS_TO_LABELS ==
    [t \in FILTER_TAGS |->
        CASE t = "sampleCode" -> "Sample Code"
          [] t = "tutorials" -> "Tutorials"
          [] t = "articles" -> "Articles"]

FilterLabels == {FILTER_TAGS_TO_LABELS[t] : t \in FILTER_TAGS}

FILTER_LABELS_TO_TAGS ==
    [l \in FilterLabels |-> CHOOSE t \in FILTER_TAGS : FILTER_TAGS_TO_LABELS[t] = l]

\* the types that carry a tag; every other type maps to undefined ("none")
TOPIC_TYPE_TO_TAG(type) ==
    CASE type = "article" -> "articles"
      [] type \in {"learn", "overview", "resources", "section", "tutorial", "project"}
            -> "tutorials"
      [] type = "sampleCode" -> "sampleCode"
      [] OTHER -> "none"

-----------------------------------------------------------------------------
(* Sequence helpers *)

Range(s) == {s[i] : i \in 1..Len(s)}

RECURSIVE SelectUids(_, _)
\* Array.prototype.filter over a sequence of uids
SelectUids(s, keep) ==
    IF s = << >> THEN << >>
    ELSE IF Head(s) \in keep THEN << Head(s) >> \o SelectUids(Tail(s), keep)
         ELSE SelectUids(Tail(s), keep)

\* Array.prototype.findIndex: the first 1-based position of x, 0 when absent
FindIndex(s, x) ==
    IF x \in Range(s) THEN CHOOSE i \in 1..Len(s) : s[i] = x /\ \A j \in 1..(i-1) : s[j] # x
    ELSE 0

\* Array.prototype.splice(at, 0, ...items): insert items after the first `at` elements
Splice(s, at, items) == SubSeq(s, 1, at) \o items \o SubSeq(s, at + 1, Len(s))


-----------------------------------------------------------------------------
(* The technology trees the model draws `children` from.  The flat list is *)
(* in document order (a node, then its subtree), its uids are 1..n in that *)
(* order, and every node has its own path.                                 *)

RECURSIVE SortedSeq(_)
\* the elements of a finite set of integers, ascending
SortedSeq(S) ==
    IF S = {} THEN << >>
    ELSE LET m == CHOOSE x \in S : \A y \in S : x <= y
         IN << m >> \o SortedSeq(S \ {m})

PathName(i) == << "/a", "/b", "/c", "/d", "/e" >>[i]

TitleOf(i) == << << "a", "B" >>, << "b" >>, << "c" >>, << "b", "c" >>, << "c", "a" >> >>[i]

TypeOf(i) == << "class", "article", "tutorial", "groupMarker", "sampleCode" >>[i]

\* the flat list of the tree whose node i has the parent p[i]
MakeTree(p) ==
    [i \in 1..Len(p) |->
        [uid |-> i,
         parent |-> p[i],
         childUIDs |-> SortedSeq({j \in 1..Len(p) : p[j] = i}),
         path |-> PathName(i),
         title |-> TitleOf(i),
         type |-> TypeOf(i)]]

\* parent vectors: no children; A, B > C; A > B > C; A > (B > C, D); A > B, C > D
Shapes ==
    { << >>, << 0, 0, 2 >>, << 0, 1, 2 >>, << 0, 1, 2, 1 >>, << 0, 1, 0, 3 >> }

Trees == {MakeTree(p) : p \in Shapes}

\* the list of a later build of the documentation: the last node of a tree of
\* more than three nodes is gone, the other nodes are as they were
Revised(ch) ==
    IF Len(ch) > 3
    THEN MakeTree([i \in 1..(Len(ch) - 1) |-> ch[i].parent])
    ELSE ch

\* the lists the parent can pass after it passed `ch`
NextChildren(ch) == {ch, Revised(ch)}

\* the technologies a session visits, in this order
Technologies == << "TechA", "TechB" >>

\* the technology of the first page of a session
FirstTechnology == Technologies[1]

\* the technologies the page after a page of `tech` can belong to
NextTechnologies(tech) ==
    {Technologies[i] : i \in {j \in 1..Len(Technologies) : \E k \in 1..j : Technologies[k] = tech}}

\* the filter texts a user types
FilterTexts == {<< "b" >>}

\* the tag labels a user selects
TagChoices == {"Tutorials"}

RECURSIVE PathsOf(_, _)
\* the paths of a sequence of uids
PathsOf(ch, uids) ==
    IF uids = << >> THEN << >>
    ELSE << ch[CHOOSE i \in 1..Len(ch) : ch[i].uid = Head(uids)].path >>
         \o PathsOf(ch, Tail(uids))

\* the parent-to-child chains of the tree, as uids, starting at any node
Chains(ch) ==
    LET n == Len(ch)
    IN {c \in UNION {[1..k -> 1..n] : k \in 1..MaxPathLen} :
           \A i \in 2..Len(c) : ch[c[i]].parent = c[i-1]}

\* the active paths a page can have: the hierarchy of a page of the tree,
\* complete or starting below the top level, or the technology page itself
ActivePaths(ch) == {<< >>} \cup {PathsOf(ch, c) : c \in Chains(ch)}

\* filter texts: in some titles in another case, in one title, in no title
MatchTexts == {<< "b" >>, << "B" >>, << "a", "b" >>, << "b", "c" >>, << "x" >>}

\* a path segment that no node has
NoSuchPath == "/zz"

\* every sequence of at most MaxPathLen segments, each the path of a node of
\* the tree or the path of no node
AnyPaths(ch) ==
    UNION {[1..k -> {ch[i].path : i \in 1..Len(ch)} \cup {NoSuchPath}] : k \in 0..MaxPathLen}

-----------------------------------------------------------------------------
(* Computed properties *)

Uids(ch) == {ch[i].uid : i \in 1..Len(ch)}

\* the uids of the flat list, in its order
UidSeq(ch) == [i \in 1..Len(ch) |-> ch[i].uid]

\* computed `childrenMap`, applied to a uid that is in the list
ChildrenMap(ch, uid) == ch[CHOOSE i \in 1..Len(ch) : ch[i].uid = uid]

\* Array.prototype.find over nodes, by path: the positions of the candidates that match
PathHits(ch, candidates, path) ==
    {i \in 1..Len(candidates) : ChildrenMap(ch, candidates[i]).path = path}

\* the uid of the first candidate with the path; only used when there is one
FindByPath(ch, candidates, path) ==
    candidates[CHOOSE i \in PathHits(ch, candidates, path) :
                   \A j \in PathHits(ch, candidates, path) : i <= j]

RECURSIVE ResolvePathSkipMissing(_, _, _)
\* ResolvePath going on with the next segment when a segment matches no node
ResolvePathSkipMissing(ch, stack, childrenStack) ==
    IF stack = << >> THEN << >>
    ELSE IF PathHits(ch, childrenStack, Head(stack)) = {}
         THEN ResolvePathSkipMissing(ch, Tail(stack), childrenStack)
         ELSE << FindByPath(ch, childrenStack, Head(stack)) >>
              \o ResolvePathSkipMissing(ch, Tail(stack),
                     ChildrenMap(ch, FindByPath(ch, childrenStack, Head(stack))).childUIDs)

\* ResolvePath stopping after the first segment
ResolvePathFirstOnly(ch, stack, childrenStack) ==
    IF stack = << >> \/ PathHits(ch, childrenStack, Head(stack)) = {} THEN << >>
    ELSE << FindByPath(ch, childrenStack, Head(stack)) >>

RECURSIVE ResolvePath(_, _, _)
\* the loop of `activePathChildren`: stack is the segments still to resolve
ResolvePath(ch, stack, childrenStack) ==
    IF stack = << >> \/ PathHits(ch, childrenStack, Head(stack)) = {} THEN << >>
    ELSE << FindByPath(ch, childrenStack, Head(stack)) >>
         \o ResolvePath(ch, Tail(stack),
                        ChildrenMap(ch, FindByPath(ch, childrenStack, Head(stack))).childUIDs)

\* computed `activePathChildren`, as uids; the first search is over all of `children`
ActivePathChildren(ch, ap) == ResolvePath(ch, ap, UidSeq(ch))

\* the last element of a sequence of uids, 0 (undefined) when it is empty
LastUid(s) == IF s = << >> THEN 0 ELSE s[Len(s)]

\* computed `activeUID`: 0 stands for undefined
ActiveUID(ch, ap) == LastUid(ActivePathChildren(ch, ap))

HasFilter(df, tags) == Len(df) > 0 \/ Len(tags) > 0

\* String.prototype.toLowerCase on one character of the model's alphabet
ToLower(c) ==
    CASE c = "A" -> "a" [] c = "B" -> "b" [] c = "C" -> "c" [] OTHER -> c

\* safeHighlightPattern (utils/search-utils): the text is escaped, so that every
\* character of it is a literal of the pattern
SafeHighlightPattern(text) == [i \in 1..Len(text) |-> [literal |-> text[i]]]

\* RegExp.prototype.test of a pattern of literals with the flag `i` and no `g`:
\* true iff the pattern occurs in the title, ignoring case
RegExpTest(pattern, title) ==
    \E off \in 0..(Len(title) - Len(pattern)) :
        \A k \in 1..Len(pattern) : ToLower(title[off + k]) = ToLower(pattern[k].literal)

\* NodeMatches without the test of the type against the group marker
NodeMatchesGroupMarker(node, df, tags) ==
    /\ Len(df) > 0 => RegExpTest(SafeHighlightPattern(df), node.title)
    /\ Len(tags) > 0 => TOPIC_TYPE_TO_TAG(node.type) \in Range(tags)

\* the callback of the filter in `filteredChildren`
NodeMatches(node, df, tags) ==
    /\ Len(df) > 0 => RegExpTest(SafeHighlightPattern(df), node.title)
    /\ Len(tags) > 0 => TOPIC_TYPE_TO_TAG(node.type) \in Range(tags)
    /\ node.type # "groupMarker"

\* computed `filteredChildren`, as the sequence of matching uids
FilteredChildren(ch, df, tags) ==
    IF ~HasFilter(df, tags) THEN << >>
    ELSE SelectUids(UidSeq(ch), {n.uid : n \in {m \in Range(ch) : NodeMatches(m, df, tags)}})

\* the branches of the template in `.no-items-wrapper`, in the order of the
\* template
NoItemsBranches(hf, ef) ==
    << [cond |-> hf, text |-> "No results matching your filter"],
       [cond |-> ef, text |-> "There was an error fetching the data"],
       [cond |-> TRUE, text |-> "Technology has no children"] >>

\* every branch with a true condition is rendered
VIfIndependent(branches) ==
    {branches[i].text : i \in {j \in 1..Len(branches) : branches[j].cond}}

\* a chain v-if / v-else-if / v-else renders the first branch with a true
\* condition
VIfChain(branches) ==
    {branches[i].text :
        i \in {j \in 1..Len(branches) :
                  branches[j].cond /\ \A k \in 1..(j - 1) : ~branches[k].cond}}

\* the texts rendered by `.no-items-wrapper` (v-if="!nodesToRender.length")
NoItemsWrapper(list, hf, ef) ==
    IF Len(list) = 0 THEN VIfChain(NoItemsBranches(hf, ef)) ELSE {}

-----------------------------------------------------------------------------
(* Methods that walk the tree *)

RECURSIVE GetAllChildrenLoopBreadthFirst(_, _)
\* the loop of `getAllChildren` pushing the childUIDs to the end of the stack
GetAllChildrenLoopBreadthFirst(ch, stack) ==
    IF stack = << >> THEN << >>
    ELSE << Head(stack) >>
         \o GetAllChildrenLoopBreadthFirst(ch, Tail(stack)
                                                \o ChildrenMap(ch, Head(stack)).childUIDs)

RECURSIVE GetAllChildrenLoop(_, _)
\* the loop of `getAllChildren`: shift the first uid, unshift its childUIDs
GetAllChildrenLoop(ch, stack) ==
    IF stack = << >> THEN << >>
    ELSE << Head(stack) >>
         \o GetAllChildrenLoop(ch, ChildrenMap(ch, Head(stack)).childUIDs \o Tail(stack))

\* getAllChildren returning the node and its children only
GetAllChildrenOneLevel(ch, uid) == << uid >> \o ChildrenMap(ch, uid).childUIDs

\* `getAllChildren(uid)`: the node, then all its descendants, in document order
GetAllChildren(ch, uid) == GetAllChildrenLoop(ch, << uid >>)

RECURSIVE GetParents(_, _)
\* `getParents(uid)`: the chain from the top-level ancestor down to the node itself
GetParents(ch, uid) ==
    IF ChildrenMap(ch, uid).parent # INDEX_ROOT_KEY
    THEN GetParents(ch, ChildrenMap(ch, uid).parent) \o << uid >>
    ELSE << uid >>

-----------------------------------------------------------------------------
(* Session storage (utils/storage): a key is either absent or holds a value *)

StorageEmpty ==
    [keys |-> {}, technology |-> "", openNodes |-> {}, nodesToRender |-> << >>,
     filter |-> << >>, selectedTags |-> << >>]

\* sessionStorage.get(key, fallback)
StorageGet(sto, key, fallback) == IF key \in sto.keys THEN sto[key] ELSE fallback

\* sessionStorage.set(key, value)
StorageSet(sto, key, value) == [sto EXCEPT !.keys = @ \cup {key}, ![key] = value]

\* PersistState leaving the stored visible list as it was
PersistStateNoNodes(sto, tech, open, vis) ==
    [sto EXCEPT !.keys = @ \cup {"technology", "openNodes"},
                !.technology = tech, !.openNodes = open]

\* `persistState`
PersistState(sto, tech, open, vis) ==
    [sto EXCEPT !.keys = @ \cup {"technology", "openNodes", "nodesToRender"},
                !.technology = tech, !.openNodes = open, !.nodesToRender = vis]

-----------------------------------------------------------------------------
(* Methods that compute the open nodes and the nodes to render *)

\* the matches and all their parents (`allChildMatchesSet`)
AllChildMatches(ch, filteredSet) == UNION {Range(GetParents(ch, u)) : u \in filteredSet}

\* ShouldRender without the rule for the children of an open direct match
ShouldRenderNoParentRule(child, hasFilterNow, open, allChildMatchesSet, filteredChildrenSet) ==
    IF ~hasFilterNow
    THEN child.parent = INDEX_ROOT_KEY \/ child.parent \in open
    ELSE child.uid \in allChildMatchesSet

\* ShouldRender showing the children of every open node while filtering
ShouldRenderAnyOpenParent(child, hasFilterNow, open, allChildMatchesSet, filteredChildrenSet) ==
    IF ~hasFilterNow
    THEN child.parent = INDEX_ROOT_KEY \/ child.parent \in open
    ELSE \/ child.parent \in open
         \/ child.uid \in allChildMatchesSet

\* ShouldRender without the rule for the matches below the top level
ShouldRenderNoSelfRule(child, hasFilterNow, open, allChildMatchesSet, filteredChildrenSet) ==
    IF ~hasFilterNow
    THEN child.parent = INDEX_ROOT_KEY \/ child.parent \in open
    ELSE \/ (child.parent = INDEX_ROOT_KEY /\ child.uid \in allChildMatchesSet)
         \/ (child.parent \in open /\ child.parent \in filteredChildrenSet)

\* ShouldRender testing the node instead of its parent when nothing is filtered
ShouldRenderOpenSelf(child, hasFilterNow, open, allChildMatchesSet, filteredChildrenSet) ==
    IF ~hasFilterNow
    THEN child.parent = INDEX_ROOT_KEY \/ child.uid \in open
    ELSE \/ (child.parent = INDEX_ROOT_KEY /\ child.uid \in allChildMatchesSet)
         \/ (child.parent \in open /\ child.parent \in filteredChildrenSet)
         \/ child.uid \in allChildMatchesSet

\* the callback of the filter in `generateNodesToRender`
ShouldRender(child, hasFilterNow, open, allChildMatchesSet, filteredChildrenSet) ==
    IF ~hasFilterNow
    THEN child.parent = INDEX_ROOT_KEY \/ child.parent \in open
    ELSE \/ (child.parent = INDEX_ROOT_KEY /\ child.uid \in allChildMatchesSet)
         \/ (child.parent \in open /\ child.parent \in filteredChildrenSet)
         \/ child.uid \in allChildMatchesSet

\* the filter of `generateNodesToRender` over `children`
RenderNodes(ch, hasFilterNow, open, allChildMatchesSet, filteredChildrenSet) ==
    SelectUids(UidSeq(ch),
               {c.uid : c \in {d \in Range(ch) :
                   ShouldRender(d, hasFilterNow, open, allChildMatchesSet,
                                filteredChildrenSet)}})

\* the nodes `generateNodesToRender` stores, given the direct matches
RenderMatches(ch, hasFilterNow, open, filteredChildrenSet) ==
    RenderNodes(ch, hasFilterNow, open, AllChildMatches(ch, filteredChildrenSet),
                filteredChildrenSet)

\* `generateNodesToRender`: the uids of the nodes to render, in the order of `children`
GenerateNodesToRender(ch, df, tags, open) ==
    RenderMatches(ch, HasFilter(df, tags), open, Range(FilteredChildren(ch, df, tags)))

\* all parents of the matches, each match excluded from its own chain
ParentsOfMatches(ch, filteredSet) ==
    UNION {Range(GetParents(ch, u)) \ {u} : u \in filteredSet}

\* NodesToOpen opening the active node without its parents
NodesToOpenActiveOnly(ch, ap, df, tags) ==
    IF ~HasFilter(df, tags)
    THEN {ActiveUID(ch, ap)} \ {0}
    ELSE ParentsOfMatches(ch, Range(FilteredChildren(ch, df, tags)))

\* the nodes `trackOpenNodes` decides to be open
NodesToOpen(ch, ap, df, tags) ==
    IF ~HasFilter(df, tags)
    THEN Range(ActivePathChildren(ch, ap))
    ELSE ParentsOfMatches(ch, Range(FilteredChildren(ch, df, tags)))

\* trackOpenNodes without its guard
SkipTrackingNever(sto, df, tags, before) == FALSE

\* the guard at the head of `trackOpenNodes`.  `before` is the old value of the
\* watcher: before.defined is FALSE when the method is called without one, and
\* then filterBefore is undefined and selectedTagsBefore is []
SkipTracking(sto, df, tags, before) ==
    \/ /\ (~before.defined \/ df # before.filter)
       /\ (~before.defined \/ Len(before.filter) = 0)
       /\ Len(StorageGet(sto, "filter", << >>)) > 0
    \/ /\ tags # (IF before.defined THEN before.selectedTags ELSE << >>)
       /\ (~before.defined \/ Len(before.selectedTags) = 0)
       /\ Len(StorageGet(sto, "selectedTags", << >>)) > 0

\* the state a method leaves: openNodes, nodesToRender, the storage, and whether
\* `trackOpenNodes` went past its guard
Outcome(open, vis, sto, ran) ==
    [openNodes |-> open, nodesToRender |-> vis, storage |-> sto, ran |-> ran]

\* the tail of `generateNodesToRender`: store the nodes and call `persistState`
StoreNodes(sto, tech, open, vis) == Outcome(open, vis, PersistState(sto, tech, open, vis), TRUE)

\* the body of `trackOpenNodes` past the guard, given the new openNodes
OpenAndGenerate(sto, tech, ch, df, tags, newOpen) ==
    StoreNodes(sto, tech, newOpen, GenerateNodesToRender(ch, df, tags, newOpen))

\* TrackOpenNodes replacing the open nodes on a page change as well
TrackOpenNodesReplace(sto, tech, ch, ap, df, tags, before, pageChange, open, vis) ==
    IF SkipTracking(sto, df, tags, before)
    THEN Outcome(open, vis, sto, FALSE)
    ELSE OpenAndGenerate(sto, tech, ch, df, tags, NodesToOpen(ch, ap, df, tags))

\* `trackOpenNodes`, with `generateNodesToRender` and `persistState` that it calls
TrackOpenNodes(sto, tech, ch, ap, df, tags, before, pageChange, open, vis) ==
    IF SkipTracking(sto, df, tags, before)
    THEN Outcome(open, vis, sto, FALSE)
    ELSE OpenAndGenerate(sto, tech, ch, df, tags,
                         (IF pageChange THEN open ELSE {}) \cup NodesToOpen(ch, ap, df, tags))

\* AugmentRenderNodes injecting at the index of the node instead of after it
AugmentRenderNodesAtIndex(vis, uid, include, exclude) ==
    IF Len(include) > 0 THEN Splice(vis, FindIndex(vis, uid) - 1, include)
    ELSE IF Len(exclude) > 0 THEN SelectUids(vis, Range(vis) \ Range(exclude))
    ELSE vis

\* `augmentRenderNodes({ uid, include, exclude })` without its `persistState`
AugmentRenderNodes(vis, uid, include, exclude) ==
    IF Len(include) > 0 THEN Splice(vis, FindIndex(vis, uid), include)
    ELSE IF Len(exclude) > 0 THEN SelectUids(vis, Range(vis) \ Range(exclude))
    ELSE vis

\* CloseNodes deleting only the node itself from the open nodes
CloseNodesSelfOnly(open, vis, uid, allChildren) ==
    [openNodes |-> open \ {uid},
     nodesToRender |-> AugmentRenderNodes(vis, uid, << >>, Tail(allChildren))]

\* the closing branch of `toggle` and of `toggleFullTree`
CloseNodes(open, vis, uid, allChildren) ==
    [openNodes |-> open \ Range(allChildren),
     nodesToRender |-> AugmentRenderNodes(vis, uid, << >>, Tail(allChildren))]

\* OpenNodes adding the nodes at the end of the list
OpenNodesAtEnd(open, vis, uid, opened, include) ==
    [openNodes |-> open \cup opened,
     nodesToRender |-> vis \o include]

\* the opening branch of `toggle` and of `toggleFullTree`
OpenNodes(open, vis, uid, opened, include) ==
    [openNodes |-> open \cup opened,
     nodesToRender |-> AugmentRenderNodes(vis, uid, include, << >>)]

\* ToggleResult leaving the node itself open when it closes it
ToggleResultKeepsOpen(ch, open, vis, uid) ==
    IF uid \in open
    THEN CloseNodes(open \ Range(Tail(GetAllChildren(ch, uid))), vis, uid,
                    Tail(GetAllChildren(ch, uid)))
    ELSE OpenNodes(open, vis, uid, {uid}, ChildrenMap(ch, uid).childUIDs)

\* `toggle(node)`: the resulting openNodes and nodesToRender
ToggleResult(ch, open, vis, uid) ==
    IF uid \in open
    THEN CloseNodes(open, vis, uid, GetAllChildren(ch, uid))
    ELSE OpenNodes(open, vis, uid, {uid}, ChildrenMap(ch, uid).childUIDs)

\* the opening branch of `toggleFullTree`
OpenFullTree(open, vis, uid, allChildren) ==
    OpenNodes(open, vis, uid, Range(allChildren), Tail(allChildren))

\* ToggleFullTreeResult opening every descendant but showing the children only
ToggleFullTreeResultShallow(ch, open, vis, uid) ==
    IF uid \in open
    THEN CloseNodes(open, vis, uid, GetAllChildren(ch, uid))
    ELSE OpenNodes(open, vis, uid, Range(GetAllChildren(ch, uid)),
                   ChildrenMap(ch, uid).childUIDs)

\* `toggleFullTree(node)`: the resulting openNodes and nodesToRender
ToggleFullTreeResult(ch, open, vis, uid) ==
    IF uid \in open
    THEN CloseNodes(open, vis, uid, GetAllChildren(ch, uid))
    ELSE OpenFullTree(open, vis, uid, GetAllChildren(ch, uid))

\* `debounce(fn, 500)`: a call replaces the pending call, and the call that is
\* pending when the delay has passed runs with its own argument
Debounce(pending, value) == << value >>

\* the watchers `debouncedFilter` and `selectedTags`: they store the new value
StoreFilters(sto, filterChanged, df, tagsAssigned, tags) ==
    [sto EXCEPT !.keys = @ \cup (IF filterChanged THEN {"filter"} ELSE {})
                           \cup (IF tagsAssigned THEN {"selectedTags"} ELSE {}),
                !.filter = IF filterChanged THEN df ELSE @,
                !.selectedTags = IF tagsAssigned THEN tags ELSE @]

\* an outcome with the watchers `debouncedFilter` and `selectedTags` applied
WithFilters(r, filterChanged, df, tagsAssigned, tags) ==
    [r EXCEPT !.storage = StoreFilters(@, filterChanged, df, tagsAssigned, tags)]

\* The watchers `nodeChangeDeps`, `debouncedFilter` and `selectedTags`, run in
\* the order they are declared, after a handler changed debouncedFilter from
\* pre.filter to df and/or assigned selectedTags (tagsAssigned) and/or the
\* active path was replaced (pageChange)
FlushWatchers(sto, tech, ch, ap, df, tags, pre, tagsAssigned, pageChange, open, vis) ==
    WithFilters(IF pageChange \/ tagsAssigned \/ df # pre.filter
                THEN TrackOpenNodes(sto, tech, ch, ap, df, tags, pre, pageChange, open, vis)
                ELSE Outcome(open, vis, sto, FALSE),
                df # pre.filter, df, tagsAssigned, tags)

-----------------------------------------------------------------------------
(* State functions with the names of the component's computed properties *)

activePathChildren == ActivePathChildren(children, activePath)

activeUID == ActiveUID(children, activePath)

hasFilter == HasFilter(debouncedFilter, selectedTags)

filteredChildren == FilteredChildren(children, debouncedFilter, selectedTags)

availableTags == IF Len(selectedTags) > 0 THEN {} ELSE FilterLabels

\* the value of the watcher `nodeChangeDeps` before a handler runs
DepsBefore == [defined |-> TRUE, filter |-> debouncedFilter, selectedTags |-> selectedTags]

\* the second argument of a call of `trackOpenNodes` that passes none
NoDepsBefore == [defined |-> FALSE, filter |-> << >>, selectedTags |-> << >>]

\* the nodes a NavigatorCardItem shows a toggle button for (`isParent`)
Toggleable == {u \in Range(nodesToRender) : Len(ChildrenMap(children, u).childUIDs) > 0}

-----------------------------------------------------------------------------
(* NavigatorDataProvider *)

Languages == {"swift", "objc"}

\* the entries of the lists of a response
swiftIndexOne == [id |-> "foo", path |-> "/technology/path"]
swiftIndexTwo == [id |-> "bar", path |-> "/bar"]
objectiveCIndexOne == [id |-> "foo-objc", path |-> "/technology/path"]
objectiveCIndexTwo == [id |-> "baz-objc", path |-> "/baz"]

\* no technology (undefined)
NoTechnology == [id |-> "", path |-> ""]

TechnologyUrls == {"/technology/path", "/bar", "/foo"}

SwiftLists == {<< swiftIndexOne >>, << swiftIndexTwo >>, << swiftIndexOne, swiftIndexTwo >>}
ObjcLists == {<< objectiveCIndexOne >>, << objectiveCIndexTwo >>,
              << objectiveCIndexTwo, objectiveCIndexOne >>}

\* the responses: a list for some of the languages
Responses ==
    {[l \in ls |-> IF l = "swift" THEN sl ELSE ol] :
        ls \in SUBSET Languages, sl \in SwiftLists, ol \in ObjcLists}

\* the index before the response
EmptyIndex == [l \in {} |-> << >>]

\* the list the technology is looked up in: the one of the language, the one
\* of Swift when the language has none
CurrentLangTechnologies(index, lang) ==
    IF lang \in DOMAIN index THEN index[lang]
    ELSE IF "swift" \in DOMAIN index THEN index["swift"]
    ELSE << >>

\* the first entry of the list with the path, or no technology
FindTechnology(list, url) ==
    IF \E i \in 1..Len(list) : list[i].path = url
    THEN list[CHOOSE i \in 1..Len(list) :
                 /\ list[i].path = url
                 /\ \A j \in 1..(i - 1) : list[j].path # url]
    ELSE NoTechnology

\* the technology looked up in the list of the language only
TechnologyWithChildrenNoFallback(index, lang, url) ==
    FindTechnology(IF lang \in DOMAIN index THEN index[lang] ELSE << >>, url)

\* the technology the provider passes to its slot
TechnologyWithChildren(index, lang, url) ==
    FindTechnology(CurrentLangTechnologies(index, lang), url)

\* a rejected request is sent again
RejectOutcomeRetry(calls) ==
    [request |-> "pending", isFetching |-> TRUE, errorFetching |-> TRUE,
     fetchCalls |-> calls + 1]

\* the state after a rejected request: the error is set, nothing is sent
RejectOutcome(calls) ==
    [request |-> "rejected", isFetching |-> FALSE, errorFetching |-> TRUE,
     fetchCalls |-> calls]

\* the props the provider passes to its slot
slotTechnology == TechnologyWithChildren(navigationIndex, interfaceLanguage, technologyUrl)

\* the provider before it is mounted, with its default props
ProviderIdle ==
    /\ providerMounted = FALSE
    /\ fetchCalls = 0
    /\ request = "none"
    /\ isFetching = FALSE
    /\ errorFetching = FALSE
    /\ navigationIndex = EmptyIndex

ProviderInit ==
    /\ interfaceLanguage \in Languages
    /\ technologyUrl \in TechnologyUrls
    /\ ProviderIdle

\* hook `mounted`: the index is fetched
MountProvider ==
    /\ ~providerMounted
    /\ providerMounted' = TRUE
    /\ isFetching' = TRUE
    /\ fetchCalls' = fetchCalls + 1
    /\ request' = "pending"
    /\ UNCHANGED << interfaceLanguage, technologyUrl, errorFetching, navigationIndex >>

\* the request is answered
FetchResolved(response) ==
    /\ request = "pending"
    /\ request' = "resolved"
    /\ navigationIndex' = response
    /\ isFetching' = FALSE
    /\ UNCHANGED << interfaceLanguage, technologyUrl, providerMounted, fetchCalls,
                    errorFetching >>

\* the request fails
FetchRejected ==
    /\ request = "pending"
    /\ \E r \in {RejectOutcome(fetchCalls)} :
          /\ request' = r.request
          /\ isFetching' = r.isFetching
          /\ errorFetching' = r.errorFetching
          /\ fetchCalls' = r.fetchCalls
    /\ UNCHANGED << interfaceLanguage, technologyUrl, providerMounted, navigationIndex >>

-----------------------------------------------------------------------------
(* AdjustableSidebarWidth *)

MAX_WIDTH == 1800
ULTRA_WIDE_DEFAULT == 500

\* the number that `undefined + number` evaluates to; every comparison with it
\* is false, and Math.max and Math.min of it are it
NaN == -1

Gt(a, b) == a # NaN /\ b # NaN /\ a > b
Lt(a, b) == a # NaN /\ b # NaN /\ a < b
MathMax(a, b) == IF a = NaN \/ b = NaN THEN NaN ELSE IF a > b THEN a ELSE b
MathMin(a, b) == IF a = NaN \/ b = NaN THEN NaN ELSE IF a < b THEN a ELSE b

BreakpointNames == {"small", "medium", "large"}

\* eventsMap
EventsMap(touch) ==
    IF touch THEN [move |-> "touchmove", end |-> "touchend"]
    ELSE [move |-> "mousemove", end |-> "mouseup"]

\* calcWidthPercent; the widths are not negative, so `\div` is Math.floor
CalcWidthPercent(percent, ww) ==
    MathMin((MathMin(ww, MAX_WIDTH) * percent) \div 100, MathMin(ww, MAX_WIDTH))

\* computed `minWidthPercent`
MinWidthPercent(bp) ==
    CASE bp = "medium" -> 30 [] bp = "large" -> 20 [] OTHER -> 0

\* computed `maxWidthPercent`
MaxWidthPercent(bp) ==
    CASE bp = "medium" -> 50 [] bp = "large" -> 50 [] OTHER -> 100

MinWidth(bp, ww) == CalcWidthPercent(MinWidthPercent(bp), ww)
MaxWidth(bp, ww) == CalcWidthPercent(MaxWidthPercent(bp), ww)

\* `data()`: the width a new instance starts with
InitialWidth(stored, ww) ==
    MathMin(MathMax(IF stored # << >> THEN stored[1]
                    ELSE IF ww >= MAX_WIDTH THEN ULTRA_WIDE_DEFAULT
                    ELSE (MinWidth("large", ww) + MaxWidth("large", ww) + 1) \div 2,
                    MinWidth("large", ww)),
            MaxWidth("large", ww))

\* the widths of the window, the stored widths and the positions of the pointer
\* (clientX + window.scrollX - sidebar.offsetLeft) of the model
WindowWidths == {1000, 2000}
StoredWidths == {<< >>, << 100 >>, << 3000 >>}
PointerPositions == {100, 400, 1200}

\* `handleDrag` past its guard. A mouse event has no `touches`: reading
\* `e.touches[0]` throws and the width stays. A touch event has no `clientX`:
\* the new width is undefined + scrollX - offsetLeft
DragWidth(cur, touch, kind, x, minW, maxW) ==
    IF touch /\ kind = "mouse" THEN cur
    ELSE MathMax(IF Gt(IF ~touch /\ kind = "touch" THEN NaN ELSE x, maxW)
                 THEN maxW
                 ELSE IF ~touch /\ kind = "touch" THEN NaN ELSE x,
                 minW)

\* `handleDrag` without the test of `isDragging`
HandleDragAlways(cur, dragging, touch, kind, x, minW, maxW) ==
    DragWidth(cur, touch, kind, x, minW, maxW)

\* `handleDrag`: the width after a move
HandleDrag(cur, dragging, touch, kind, x, minW, maxW) ==
    IF ~dragging THEN cur ELSE DragWidth(cur, touch, kind, x, minW, maxW)

\* `closeMobileSidebar` emitting also when the sidebar is not open
CloseMobileSidebarAlways(open) ==
    {[name |-> "update:openExternally", isOpen |-> FALSE]}

\* `closeMobileSidebar`: the events it emits
CloseMobileSidebar(open) ==
    IF ~open THEN {} ELSE {[name |-> "update:openExternally", isOpen |-> FALSE]}

\* `emitEventChange`; the event carries a width, `update:openExternally` a
\* boolean
EmitEventChange(w) == {[name |-> "width-change", value |-> w]}

Released == [scrollLock |-> FALSE, focusTrap |-> FALSE, voHidden |-> FALSE]
Engaged == [scrollLock |-> TRUE, focusTrap |-> TRUE, voHidden |-> TRUE]

\* `toggleScrollLock`: nothing without the container
ToggleScrollLock(lock, hasContainer, cur) ==
    IF ~hasContainer THEN cur
    ELSE IF lock THEN Engaged ELSE Released

\* the sidebar of the main specification: created, never mounted
SidebarIdle ==
    /\ sidebarPhase = "created"
    /\ openExternally = FALSE
    /\ container = TRUE
    /\ windowWidth = 1000
    /\ sidebarStorage = << >>
    /\ width = InitialWidth(<< >>, 1000)
    /\ isDragging = FALSE
    /\ isTouch = FALSE
    /\ breakpoint = "large"
    /\ listeners = {}
    /\ checkPending = FALSE
    /\ engaged = Released
    /\ emitted = {}

\* props, window and storage of a new instance, and its `data()`
SidebarInit ==
    /\ sidebarPhase = "created"
    /\ openExternally \in BOOLEAN
    /\ container \in BOOLEAN
    /\ windowWidth \in WindowWidths
    /\ sidebarStorage \in StoredWidths
    /\ width = InitialWidth(sidebarStorage, windowWidth)
    /\ isDragging = FALSE
    /\ isTouch = FALSE
    /\ breakpoint = "large"
    /\ listeners = {}
    /\ checkPending = FALSE
    /\ engaged = Released
    /\ emitted = {}

\* hook `mounted`: the listeners of the window are added and the focus trap is
\* made; the watcher of `openExternally` is not immediate
MountSidebar ==
    /\ sidebarPhase = "created"
    /\ sidebarPhase' = "mounted"
    /\ emitted' = {}
    /\ UNCHANGED << openExternally, container, width, isDragging, isTouch, windowWidth,
                    breakpoint, sidebarStorage, listeners, checkPending, engaged >>

\* hook `beforeDestroy`
DestroySidebar ==
    /\ sidebarPhase = "mounted"
    /\ sidebarPhase' = "destroyed"
    /\ engaged' = IF openExternally THEN ToggleScrollLock(FALSE, container, engaged)
                  ELSE engaged
    /\ emitted' = {}
    /\ UNCHANGED << openExternally, container, width, isDragging, isTouch, windowWidth,
                    breakpoint, sidebarStorage, listeners, checkPending >>

\* the parent changes the prop: watcher `openExternally`, `handleExternalOpen`
SetOpenExternally(isOpen) ==
    /\ sidebarPhase = "mounted"
    /\ isOpen # openExternally
    /\ openExternally' = isOpen
    /\ engaged' = ToggleScrollLock(isOpen, container, engaged)
    /\ emitted' = {}
    /\ UNCHANGED << sidebarPhase, container, width, isDragging, isTouch, windowWidth,
                    breakpoint, sidebarStorage, listeners, checkPending >>

\* `startDrag`, on mousedown or touchstart of the handle
StartDrag(type) ==
    /\ sidebarPhase = "mounted"
    /\ isTouch' = (type = "touchstart")
    /\ IF isDragging
       THEN UNCHANGED << isDragging, listeners >>
       ELSE /\ isDragging' = TRUE
            /\ listeners' = listeners \cup {EventsMap(type = "touchstart").move,
                                            EventsMap(type = "touchstart").end}
    /\ emitted' = {}
    /\ UNCHANGED << sidebarPhase, openExternally, container, width, windowWidth,
                    breakpoint, sidebarStorage, checkPending, engaged >>

\* a move of the pointer that the document listens to: `handleDrag`
PointerMove(kind, x) ==
    /\ sidebarPhase = "mounted"
    /\ EventsMap(kind = "touch").move \in listeners
    /\ width' = HandleDrag(width, isDragging, isTouch, kind, x,
                           MinWidth(breakpoint, windowWidth),
                           MaxWidth(breakpoint, windowWidth))
    /\ emitted' = {}
    /\ UNCHANGED << sidebarPhase, openExternally, container, isDragging, isTouch,
                    windowWidth, breakpoint, sidebarStorage, listeners, checkPending,
                    engaged >>

\* the end of the pointer that the document listens to: `stopDrag`
PointerEnd(kind) ==
    /\ sidebarPhase = "mounted"
    /\ EventsMap(kind = "touch").end \in listeners
    /\ IF ~isDragging
       THEN /\ emitted' = {}
            /\ UNCHANGED << isDragging, sidebarStorage, listeners >>
       ELSE /\ isDragging' = FALSE
            /\ sidebarStorage' = << width >>
            /\ listeners' = listeners \ {EventsMap(isTouch).move, EventsMap(isTouch).end}
            /\ emitted' = EmitEventChange(width)
    /\ UNCHANGED << sidebarPhase, openExternally, container, width, isTouch, windowWidth,
                    breakpoint, checkPending, engaged >>

\* `onEscapeKeydown`
KeyDown(key) ==
    /\ sidebarPhase = "mounted"
    /\ emitted' = IF key = "Escape" THEN CloseMobileSidebar(openExternally) ELSE {}
    /\ UNCHANGED << sidebarPhase, openExternally, container, width, isDragging, isTouch,
                    windowWidth, breakpoint, sidebarStorage, listeners, checkPending,
                    engaged >>

\* watcher `$route`
RouteChange ==
    /\ sidebarPhase = "mounted"
    /\ emitted' = CloseMobileSidebar(openExternally)
    /\ UNCHANGED << sidebarPhase, openExternally, container, width, isDragging, isTouch,
                    windowWidth, breakpoint, sidebarStorage, listeners, checkPending,
                    engaged >>

\* the BreakpointEmitter reports another breakpoint: watcher `breakpoint`
BreakpointChange(value) ==
    /\ sidebarPhase = "mounted"
    /\ value # breakpoint
    /\ breakpoint' = value
    /\ checkPending' = TRUE
    /\ emitted' = IF value = "large" THEN CloseMobileSidebar(openExternally) ELSE {}
    /\ UNCHANGED << sidebarPhase, openExternally, container, width, isDragging, isTouch,
                    windowWidth, sidebarStorage, listeners, engaged >>

\* `storeWindowSize` after a resize, and the watcher `windowWidth`
Resize(ww) ==
    /\ sidebarPhase = "mounted"
    /\ ww # windowWidth
    /\ windowWidth' = ww
    /\ checkPending' = TRUE
    /\ emitted' = {}
    /\ UNCHANGED << sidebarPhase, openExternally, container, width, isDragging, isTouch,
                    breakpoint, sidebarStorage, listeners, engaged >>

\* the delay of the debounced `getWidthInCheck` has passed
GetWidthInCheck ==
    /\ sidebarPhase = "mounted"
    /\ checkPending
    /\ checkPending' = FALSE
    /\ width' = IF Gt(width, MaxWidth(breakpoint, windowWidth))
                THEN MaxWidth(breakpoint, windowWidth)
                ELSE IF Lt(width, MinWidth(breakpoint, windowWidth))
                     THEN MinWidth(breakpoint, windowWidth)
                     ELSE width
    /\ emitted' = {}
    /\ UNCHANGED << sidebarPhase, openExternally, container, isDragging, isTouch,
                    windowWidth, breakpoint, sidebarStorage, listeners, engaged >>

-----------------------------------------------------------------------------
(* Initial state: the props are set, `data()` has run, the storage is empty *)

\* the card before `created`, of a technology without children
CardIdle ==
    /\ technology = FirstTechnology
    /\ children = << >>
    /\ activePath = << >>
    /\ filter = << >>
    /\ debouncedFilter = << >>
    /\ selectedTags = << >>
    /\ openNodes = {}
    /\ nodesToRender = << >>
    /\ storage = StorageEmpty
    /\ timer = << >>
    /\ mounted = FALSE
    /\ frames = FALSE
    /\ scrolled = << >>
    /\ last = [op |-> "init", ran |-> FALSE]

Init ==
    /\ interfaceLanguage = "swift"
    /\ technologyUrl = "/technology/path"
    /\ ProviderIdle
    /\ SidebarIdle
    /\ technology = FirstTechnology
    /\ children \in Trees
    /\ activePath \in ActivePaths(children)
    /\ filter = << >>
    /\ debouncedFilter = << >>
    /\ selectedTags = << >>
    /\ openNodes = {}
    /\ nodesToRender = << >>
    /\ storage = StorageEmpty
    /\ timer = << >>
    /\ mounted = FALSE
    /\ frames = FALSE
    /\ scrolled = << >>
    /\ last = [op |-> "init", ran |-> FALSE]

-----------------------------------------------------------------------------
(* Actions *)

\* hook `created`: `restorePersistedState`, then the watchers it triggered
Created ==
    /\ ~mounted
    /\ LET tech == StorageGet(storage, "technology", "")
           stored == StorageGet(storage, "nodesToRender", << >>)
           f == StorageGet(storage, "filter", << >>)
           allNodesMatch == Range(stored) \subseteq Uids(children)
       IN IF (Len(stored) = 0 /\ Len(f) = 0) \/ tech # technology \/ ~allNodesMatch
          THEN \E r \in {TrackOpenNodes(storage, technology, children, activePath,
                                         debouncedFilter, selectedTags, NoDepsBefore,
                                         TRUE, openNodes, nodesToRender)} :
                  /\ openNodes' = r.openNodes
                  /\ nodesToRender' = r.nodesToRender
                  /\ storage' = r.storage
                  /\ last' = [op |-> "created", ran |-> r.ran]
                  /\ frames' = r.ran
                  /\ UNCHANGED << filter, debouncedFilter, selectedTags, timer >>
          ELSE \E tags \in {StorageGet(storage, "selectedTags", << >>)} :
               \E r \in {FlushWatchers(storage, technology, children, activePath, f, tags,
                                       DepsBefore, TRUE, FALSE,
                                       StorageGet(storage, "openNodes", {}), stored)} :
                  /\ selectedTags' = tags
                  /\ filter' = f
                  /\ debouncedFilter' = f
                  /\ timer' = IF f # filter THEN Debounce(timer, f) ELSE timer
                  /\ openNodes' = r.openNodes
                  /\ nodesToRender' = r.nodesToRender
                  /\ storage' = r.storage
                  /\ last' = [op |-> "restored", ran |-> r.ran]
                  /\ frames' = TRUE
    /\ mounted' = TRUE
    /\ UNCHANGED << technology, children, activePath >>
    /\ scrolled' = << >>

\* event `toggle` of a NavigatorCardItem
Toggle(uid) ==
    /\ mounted
    /\ uid \in Toggleable
    /\ \E r \in {ToggleResult(children, openNodes, nodesToRender, uid)} :
          /\ openNodes' = r.openNodes
          /\ nodesToRender' = r.nodesToRender
          /\ storage' = PersistState(storage, technology, r.openNodes, r.nodesToRender)
    /\ last' = [op |-> "toggle", ran |-> FALSE]
    /\ UNCHANGED << technology, children, activePath, filter, debouncedFilter,
                    selectedTags, timer, mounted >>
    /\ frames' = frames
    /\ scrolled' = << >>

\* event `toggle-full` of a NavigatorCardItem
ToggleFullTree(uid) ==
    /\ mounted
    /\ uid \in Toggleable
    /\ \E r \in {ToggleFullTreeResult(children, openNodes, nodesToRender, uid)} :
          /\ openNodes' = r.openNodes
          /\ nodesToRender' = r.nodesToRender
          /\ storage' = PersistState(storage, technology, r.openNodes, r.nodesToRender)
    /\ last' = [op |-> "toggleFullTree", ran |-> FALSE]
    /\ UNCHANGED << technology, children, activePath, filter, debouncedFilter,
                    selectedTags, timer, mounted >>
    /\ frames' = frames
    /\ scrolled' = << >>

\* the parent passes a new `activePath`: the watcher `nodeChangeDeps` runs
Navigate(ap) ==
    /\ mounted
    /\ activePath' = ap
    /\ \E r \in {FlushWatchers(storage, technology, children, ap, debouncedFilter,
                              selectedTags, DepsBefore, FALSE, TRUE, openNodes,
                              nodesToRender)} :
          /\ openNodes' = r.openNodes
          /\ nodesToRender' = r.nodesToRender
          /\ storage' = r.storage
          /\ last' = [op |-> "navigate", ran |-> r.ran]
          /\ frames' = (frames \/ r.ran)
    /\ UNCHANGED << technology, children, filter, debouncedFilter, selectedTags,
                    timer, mounted >>
    /\ scrolled' = << >>

\* the watcher `filter` calling a function that is not debounced
FilterInputImmediate(text) ==
    /\ mounted
    /\ text # filter
    /\ filter' = text
    /\ debouncedFilter' = text
    /\ timer' = timer
    /\ \E r \in {FlushWatchers(storage, technology, children, activePath, text,
                              selectedTags, DepsBefore, FALSE, FALSE, openNodes,
                              nodesToRender)} :
          /\ openNodes' = r.openNodes
          /\ nodesToRender' = r.nodesToRender
          /\ storage' = r.storage
          /\ frames' = (frames \/ r.ran)
    /\ last' = [op |-> "filterInput", ran |-> FALSE]
    /\ UNCHANGED << technology, children, activePath, selectedTags, mounted >>
    /\ scrolled' = << >>

\* the user edits the filter text: the watcher `filter` calls `debounceInput`
FilterInput(text) ==
    /\ mounted
    /\ text # filter
    /\ filter' = text
    /\ timer' = Debounce(timer, text)
    /\ last' = [op |-> "filterInput", ran |-> FALSE]
    /\ UNCHANGED << technology, children, activePath, debouncedFilter, selectedTags,
                    openNodes, nodesToRender, storage, mounted >>
    /\ frames' = frames
    /\ scrolled' = << >>

\* the debounce delay has passed: `debounceInput` sets `debouncedFilter`
DebounceInput ==
    /\ mounted
    /\ timer # << >>
    /\ debouncedFilter' = timer[1]
    /\ timer' = << >>
    /\ \E r \in {FlushWatchers(storage, technology, children, activePath, timer[1],
                              selectedTags, DepsBefore, FALSE, FALSE, openNodes,
                              nodesToRender)} :
          /\ openNodes' = r.openNodes
          /\ nodesToRender' = r.nodesToRender
          /\ storage' = r.storage
          /\ last' = [op |-> "debounceInput", ran |-> r.ran]
          /\ frames' = (frames \/ r.ran)
    /\ UNCHANGED << technology, children, activePath, filter, selectedTags, mounted >>
    /\ scrolled' = << >>

\* setter of `selectedTagsModelValue`: the user selects one of the available
\* tags, or removes the selected one
SelectTags(values) ==
    /\ mounted
    /\ Range(values) \subseteq availableTags
    /\ values # [i \in 1..Len(selectedTags) |-> FILTER_TAGS_TO_LABELS[selectedTags[i]]]
    /\ \E tags \in {[i \in 1..Len(values) |-> FILTER_LABELS_TO_TAGS[values[i]]]} :
       \E r \in {FlushWatchers(storage, technology, children, activePath, debouncedFilter,
                               tags, DepsBefore, TRUE, FALSE, openNodes, nodesToRender)} :
          /\ selectedTags' = tags
          /\ openNodes' = r.openNodes
          /\ nodesToRender' = r.nodesToRender
          /\ storage' = r.storage
          /\ last' = [op |-> "selectTags", ran |-> r.ran]
          /\ frames' = (frames \/ r.ran)
    /\ UNCHANGED << technology, children, activePath, filter, debouncedFilter, timer,
                    mounted >>
    /\ scrolled' = << >>

\* clearFilters leaving the debounced text to `debounceInput`
ClearFiltersDebounced ==
    /\ mounted
    /\ filter' = << >>
    /\ debouncedFilter' = debouncedFilter
    /\ selectedTags' = << >>
    /\ timer' = IF filter # << >> THEN Debounce(timer, << >>) ELSE timer
    /\ \E r \in {FlushWatchers(storage, technology, children, activePath, debouncedFilter,
                              << >>, DepsBefore, TRUE, FALSE, openNodes, nodesToRender)} :
          /\ openNodes' = r.openNodes
          /\ nodesToRender' = r.nodesToRender
          /\ storage' = r.storage
          /\ last' = [op |-> "clearFilters", ran |-> r.ran]
          /\ frames' = (frames \/ r.ran)
    /\ UNCHANGED << technology, children, activePath, mounted >>
    /\ scrolled' = << >>

\* `clearFilters`
ClearFilters ==
    /\ mounted
    /\ filter' = << >>
    /\ debouncedFilter' = << >>
    /\ selectedTags' = << >>
    /\ timer' = IF filter # << >> THEN Debounce(timer, << >>) ELSE timer
    /\ \E r \in {FlushWatchers(storage, technology, children, activePath, << >>, << >>,
                              DepsBefore, TRUE, FALSE, openNodes, nodesToRender)} :
          /\ openNodes' = r.openNodes
          /\ nodesToRender' = r.nodesToRender
          /\ storage' = r.storage
          /\ last' = [op |-> "clearFilters", ran |-> r.ran]
          /\ frames' = (frames \/ r.ran)
    /\ UNCHANGED << technology, children, activePath, mounted >>
    /\ scrolled' = << >>

\* the parent passes a new `children` list: the computed properties that
\* `nodeChangeDeps` holds are computed again and its watcher runs
ChildrenChange(ch) ==
    /\ mounted
    /\ ch # children
    /\ children' = ch
    /\ \E r \in {FlushWatchers(storage, technology, ch, activePath, debouncedFilter,
                              selectedTags, DepsBefore, FALSE, TRUE, openNodes,
                              nodesToRender)} :
          /\ openNodes' = r.openNodes
          /\ nodesToRender' = r.nodesToRender
          /\ storage' = r.storage
          /\ last' = [op |-> "childrenChange", ran |-> r.ran]
          /\ frames' = (frames \/ r.ran)
    /\ UNCHANGED << technology, activePath, filter, debouncedFilter, selectedTags,
                    timer, mounted >>
    /\ scrolled' = << >>

\* the component is destroyed (the page is reloaded or left); the next instance
\* starts from `data()` with the props of the page it is created on
Destroy(ap, tech, ch) ==
    /\ mounted
    /\ mounted' = FALSE
    /\ activePath' = ap
    /\ technology' = tech
    /\ children' = ch
    /\ filter' = << >>
    /\ debouncedFilter' = << >>
    /\ selectedTags' = << >>
    /\ openNodes' = {}
    /\ nodesToRender' = << >>
    /\ timer' = << >>
    /\ last' = [op |-> "destroy", ran |-> FALSE]
    /\ UNCHANGED storage
    /\ frames' = FALSE
    /\ scrolled' = << >>

\* ScrollIndex looking for the active node also while a filter is on
ScrollIndexOfActive(hf, vis, uid) == FindIndex(vis, uid) - 1

\* the index `scrollToElement` computes after its frame: 0 with a filter, or
\* the result of `findIndex` for the active uid, -1 when it is not listed
ScrollIndex(hf, vis, uid) == IF hf THEN 0 ELSE FindIndex(vis, uid) - 1

\* the call of `scrollToItem`, made unless the index is -1; the scroller is
\* rendered for as long as the card is (it is hidden with v-show)
ScrollToItem(index) == IF index # -1 THEN << index >> ELSE << >>

\* a frame has passed: the calls of `scrollToElement` that wait in
\* `waitFrames(1)` go on, each with the state of the card as it is now
ScrollToElement ==
    /\ mounted
    /\ frames
    /\ frames' = FALSE
    /\ scrolled' = ScrollToItem(ScrollIndex(hasFilter, nodesToRender, activeUID))
    /\ last' = [op |-> "scrollToElement", ran |-> FALSE]
    /\ UNCHANGED << technology, children, activePath, filter, debouncedFilter,
                    selectedTags, openNodes, nodesToRender, storage, timer, mounted >>

\* the debounce delay is not running
Quiet == timer = << >>

\* The continuation of `scrollToElement` writes nothing that the card reads; it
\* is a step of ScrollSpec below, and Spec leaves it out.
\* The handlers of the tree and of the tags neither read nor write `filter` or
\* the pending call of `debounceInput`, and the filter watcher touches nothing
\* else: either order of the two gives the same state, so the handlers of the
\* tree and of the tags are taken outside the delay only
Next ==
    \/ /\ Created
       /\ UNCHANGED << providerVars, sidebarVars >>
    \/ /\ \E uid \in Uids(children) : Quiet /\ Toggle(uid)
       /\ UNCHANGED << providerVars, sidebarVars >>
    \/ /\ \E uid \in Uids(children) : Quiet /\ ToggleFullTree(uid)
       /\ UNCHANGED << providerVars, sidebarVars >>
    \/ /\ \E ap \in ActivePaths(children) : Quiet /\ Navigate(ap)
       /\ UNCHANGED << providerVars, sidebarVars >>
    \/ /\ \E text \in FilterTexts \cup {<< >>} : FilterInput(text)
       /\ UNCHANGED << providerVars, sidebarVars >>
    \/ /\ DebounceInput
       /\ UNCHANGED << providerVars, sidebarVars >>
    \/ /\ \E values \in {<< >>} \cup {<< l >> : l \in TagChoices} : Quiet /\ SelectTags(values)
       /\ UNCHANGED << providerVars, sidebarVars >>
    \/ /\ ClearFilters
       /\ UNCHANGED << providerVars, sidebarVars >>
    \/ /\ \E ch \in NextChildren(children) : Quiet /\ ChildrenChange(ch)
       /\ UNCHANGED << providerVars, sidebarVars >>
    \/ /\ \E ch \in NextChildren(children), tech \in NextTechnologies(technology) :
              \E ap \in ActivePaths(ch) : Destroy(ap, tech, ch)
       /\ UNCHANGED << providerVars, sidebarVars >>

Spec == Init /\ [][Next]_vars

-----------------------------------------------------------------------------
(* State functions the properties are stated with *)

\* what `generateNodesToRender` computes from the current state
Recompute == GenerateNodesToRender(children, debouncedFilter, selectedTags, openNodes)

\* the parent of a node of `children`
ParentOf(uid) == ChildrenMap(children, uid).parent

\* the descendants of a node, the node excluded
Descendants(uid) == Range(Tail(GetAllChildren(children, uid)))

\* every open node has all its ancestors open
AncestorClosed ==
    \A u \in openNodes \cap Uids(children) :
        ParentOf(u) = INDEX_ROOT_KEY \/ ParentOf(u) \in openNodes

\* the open nodes and the visible list as a pair
TreeView == [openNodes |-> openNodes, nodesToRender |-> nodesToRender]

\* `toggle(node)` called twice in a row on the current state
ToggleAgain(first, uid) == ToggleResult(children, first.openNodes, first.nodesToRender, uid)

ToggleTwice(uid) == ToggleAgain(ToggleResult(children, openNodes, nodesToRender, uid), uid)

-----------------------------------------------------------------------------
(* Properties of toggle and toggleFullTree *)

-----------------------------------------------------------------------------
(* Properties of navigation *)

\* C4: a change of the active path only adds to the open nodes
C4_NavigateOnlyAdds == [][last'.op = "navigate" => openNodes \subseteq openNodes']_vars

\* a navigation kept a node open that is not on the new active path
C4_Witness ==
    /\ last.op = "navigate" /\ last.ran
    /\ openNodes \ NodesToOpen(children, activePath, debouncedFilter, selectedTags) # {}
    /\ activePathChildren # << >>

\* C5 as stated: after a navigation to a path that resolves, the active node
\* is in the visible list
C5_ActiveShown == (last.op = "navigate" /\ activeUID # 0) => activeUID \in Range(nodesToRender)

\* C5, amended: with no filter active, after a navigation to a path that
\* resolves from a top-level node, the active node is in the visible list
C5_ActiveRevealed ==
    (/\ last.op = "navigate" /\ ~hasFilter /\ activeUID # 0
     /\ ParentOf(activePathChildren[1]) = INDEX_ROOT_KEY)
        => activeUID \in Range(nodesToRender)

\* a navigation to a node of the third level put it in the visible list
C5_Witness ==
    /\ last.op = "navigate" /\ ~hasFilter
    /\ Len(activePathChildren) > 2
    /\ ParentOf(activePathChildren[1]) = INDEX_ROOT_KEY
    /\ activeUID \in Range(nodesToRender)

-----------------------------------------------------------------------------
(* Properties of filtering *)

\* the handlers that change the debounced filter text or the selected tags
FilterOps == {"debounceInput", "selectTags", "clearFilters"}

\* the direct matches of the current filter
Matches == Range(filteredChildren)

\* the direct matches and all their ancestors
MatchesAndAncestors == AllChildMatches(children, Matches)

\* the children of the open direct matches
ChildrenOfOpenMatches ==
    {u \in Uids(children) : ParentOf(u) \in openNodes \cap Matches}

\* C6: when the debounced filter text or the selected tags change, without a
\* page change, to an active filter, the open nodes afterwards are exactly the
\* ancestors of the filtered matches
C6_FilterReplaces ==
    [][(/\ last'.op \in FilterOps
        /\ (debouncedFilter' # debouncedFilter \/ selectedTags' # selectedTags)
        /\ hasFilter')
        => openNodes' = ParentsOfMatches(children, Matches')]_vars

\* C7 as stated: with a filter active, the list recomputed after a filter
\* change holds exactly the direct matches and their ancestors
C7_ExactlyMatchesAndAncestors ==
    (last.op \in FilterOps /\ last.ran /\ hasFilter)
        => Range(nodesToRender) = MatchesAndAncestors

\* C7, amended: with a filter active, a recomputed list holds exactly the
\* direct matches, their ancestors and the children of the open direct matches
C7_FilteredRecompute ==
    (last.ran /\ hasFilter)
        => Range(nodesToRender) = MatchesAndAncestors \cup ChildrenOfOpenMatches

\* a filter change listed a node that is neither a match nor an ancestor of
\* one, next to a match below the top level
C7_Witness ==
    /\ last.op \in FilterOps /\ last.ran /\ hasFilter
    /\ Range(nodesToRender) = MatchesAndAncestors \cup ChildrenOfOpenMatches
    /\ ChildrenOfOpenMatches \ MatchesAndAncestors # {}
    /\ \E u \in Matches : ParentOf(u) # INDEX_ROOT_KEY

\* C8 as stated: with a filter active, a recomputed list holds no node whose
\* chain of ancestors, the node included, has no direct match
C8_ChainHasMatch ==
    (last.ran /\ hasFilter)
        => \A u \in Range(nodesToRender) : Range(GetParents(children, u)) \cap Matches # {}

\* C8, amended: with a filter active, a recomputed list holds no node that
\* has no direct match among its ancestors, itself and its descendants
C8_FilteredExclusion ==
    (last.ran /\ hasFilter)
        => \A u \in Range(nodesToRender) :
              (Range(GetParents(children, u)) \cup Descendants(u)) \cap Matches # {}

\* a recompute with a filter active left out a node that has no match around
\* it and listed an ancestor of a match that is no match itself
C8_Witness ==
    /\ last.ran /\ hasFilter
    /\ Uids(children) \ Range(nodesToRender) # {}
    /\ \E u \in Range(nodesToRender) :
          /\ Range(GetParents(children, u)) \cap Matches = {}
          /\ Descendants(u) \cap Matches # {}

\* C9: with a filter active, every direct match and every ancestor of one is
\* in the list `generateNodesToRender` computes, whatever the open nodes are,
\* and so in the visible list after a recompute
C9_HierarchyShown ==
    (mounted /\ hasFilter)
        => /\ \A open \in SUBSET Uids(children) :
                 MatchesAndAncestors
                     \subseteq Range(GenerateNodesToRender(children, debouncedFilter,
                                                           selectedTags, open))
           /\ last.ran => MatchesAndAncestors \subseteq Range(nodesToRender)

\* a recompute with a filter active listed a match below the top level and
\* its ancestors
C9_Witness ==
    /\ last.ran /\ hasFilter
    /\ \E u \in Matches : ParentOf(u) # INDEX_ROOT_KEY /\ ParentOf(u) \notin Matches
    /\ MatchesAndAncestors \subseteq Range(nodesToRender)

\* C10: with no filter text and no tag, a recomputed list holds exactly the
\* nodes whose parent is the root or is open, in the order of `children`
C10_UnfilteredRecompute ==
    (last.ran /\ ~hasFilter)
        => nodesToRender
             = SelectUids(UidSeq(children),
                          {u \in Uids(children) :
                              ParentOf(u) = INDEX_ROOT_KEY \/ ParentOf(u) \in openNodes})

\* a recompute with no filter listed the children of an open node and left
\* out the children of a closed one
C10_Witness ==
    /\ last.ran /\ ~hasFilter
    /\ \E u \in Range(nodesToRender) : ParentOf(u) \in openNodes
    /\ \E u \in Uids(children) : u \notin Range(nodesToRender)

-----------------------------------------------------------------------------
(* Properties of the restore on mount *)

\* the technology and the visible list that the storage holds
StoredTechnology == StorageGet(storage, "technology", "")

StoredNodes == StorageGet(storage, "nodesToRender", << >>)

\* `allNodesMatch`: every stored uid of the visible list is in `childrenMap`
AllNodesMatch == Range(StoredNodes) \subseteq Uids(children)

\* the persisted state is of another technology or names a node that is gone
StaleCache == StoredTechnology # technology \/ ~AllNodesMatch

\* no filter, no tags, the nodes of the active path open, and the list
\* recomputed from them
DefaultState ==
    /\ filter = << >> /\ debouncedFilter = << >> /\ selectedTags = << >>
    /\ openNodes = Range(activePathChildren)
    /\ nodesToRender = GenerateNodesToRender(children, << >>, << >>,
                                             Range(activePathChildren))

\* C11: a mount that finds a stale cache ends in the default state, whatever
\* the stored filter and tags are
C11_StaleCacheRejected ==
    [][(~mounted /\ mounted' /\ StaleCache) => DefaultState']_vars

\* C12: on mount the persisted snapshot is applied when the stored technology
\* is the current one and every stored uid resolves (here: for a snapshot that
\* lists a node), and in every case where one of the two fails the snapshot
\* is discarded and the visible list is recomputed
C12_RestoreCondition ==
    [][(~mounted /\ mounted')
        => /\ (~StaleCache /\ StoredNodes # << >>) => last'.op = "restored"
           /\ StaleCache => (last'.op = "created" /\ nodesToRender' = Recompute')]_vars

-----------------------------------------------------------------------------
(* Invariants of the open nodes and of the visible list *)

\* C13: once the card is created, every open uid is the uid of a node of the
\* current `children`
C13_OpenNodesInStore == mounted => openNodes \subseteq Uids(children)

\* the tree of the scenarios: A(1) and B(2) at the top level, C(3) under B
ScenarioTree == MakeTree(<< 0, 0, 2 >>)

\* C14 as stated: in the scenario tree, a mount with an empty storage and an
\* active path that resolves to C leaves B alone open and lists A, B, C
C14_ScenarioOpensB ==
    [][(/\ ~mounted /\ mounted' /\ storage = StorageEmpty
        /\ children = ScenarioTree /\ activeUID = 3)
        => (openNodes' = {2} /\ nodesToRender' = << 1, 2, 3 >>)]_vars

\* C14, amended: in the scenario tree, a mount with an empty storage and the
\* active path made of the path of B and the path of C leaves B and C open
\* and lists A, B, C
C14_Scenario ==
    [][(/\ ~mounted /\ mounted' /\ storage = StorageEmpty
        /\ children = ScenarioTree /\ activePath = PathsOf(ScenarioTree, << 2, 3 >>))
        => (openNodes' = {2, 3} /\ nodesToRender' = << 1, 2, 3 >>)]_vars

\* the first mount of a session in the scenario tree, on the page of C
C14_Witness ==
    /\ last.op = "created" /\ last.ran
    /\ children = ScenarioTree /\ activePath = PathsOf(ScenarioTree, << 2, 3 >>)
    /\ ~hasFilter
    /\ openNodes = {2, 3} /\ nodesToRender = << 1, 2, 3 >>

\* the visible list holds nodes of `children` only, none of them twice, in
\* the order of `children` (the document order)
WellFormedList ==
    /\ Range(nodesToRender) \subseteq Uids(children)
    /\ nodesToRender = SelectUids(UidSeq(children), Range(nodesToRender))

\* C15: once the card is created, the visible list is always well formed
C15_WellFormed == mounted => WellFormedList

-----------------------------------------------------------------------------
(* Properties of the persistence *)

\* the storage holds the technology, the open nodes and the visible list
NodesPersisted ==
    /\ {"technology", "openNodes", "nodesToRender"} \subseteq storage.keys
    /\ storage.technology = technology
    /\ storage.openNodes = openNodes
    /\ storage.nodesToRender = nodesToRender

\* C16: after every recompute, toggle and toggleFullTree the storage holds
\* the technology, the open nodes and the visible list, and after every
\* change of the debounced filter or of the selected tags it holds the new
\* value
C16_Persisted ==
    [][/\ (last'.op \in {"toggle", "toggleFullTree"} \/ last'.ran) => NodesPersisted'
       /\ (mounted' /\ debouncedFilter' # debouncedFilter)
             => ("filter" \in storage'.keys /\ storage'.filter = debouncedFilter')
       /\ (mounted' /\ selectedTags' # selectedTags)
             => ("selectedTags" \in storage'.keys
                 /\ storage'.selectedTags = selectedTags')]_vars

\* a toggle while a filter text and a tag are set: all five keys are stored
C16_Witness ==
    /\ last.op = "toggle"
    /\ NodesPersisted /\ openNodes # {}
    /\ debouncedFilter # << >> /\ storage.filter = debouncedFilter
    /\ selectedTags # << >> /\ storage.selectedTags = selectedTags

-----------------------------------------------------------------------------
(* The resolver of the active path, applied to every path over the segments *)
(* of the tree                                                             *)

ResolverNext ==
    \/ Created /\ UNCHANGED << providerVars, sidebarVars >>
    \/ /\ \E ap \in AnyPaths(children) : Navigate(ap)
       /\ UNCHANGED << providerVars, sidebarVars >>

ResolverSpec == Init /\ [][ResolverNext]_vars

\* the nodes a segment is searched in after `k` nodes of the chain `r`
Candidates(r, k) ==
    IF k = 0 THEN Uids(children) ELSE Range(ChildrenMap(children, r[k]).childUIDs)

\* r is a chain for the path ap: node i has segment i as its path, node i + 1
\* is a child of node i, and the chain ends at the end of the path or where
\* no candidate has the next segment
ChainResolved(r, ap) ==
    /\ Len(r) <= Len(ap)
    /\ \A i \in 1..Len(r) : /\ r[i] \in Candidates(r, i - 1)
                            /\ ChildrenMap(children, r[i]).path = ap[i]
    /\ Len(r) < Len(ap)
          => \A u \in Candidates(r, Len(r)) : ChildrenMap(children, u).path # ap[Len(r) + 1]

\* C17: the resolver returns a chain of the path that stops at the first
\* segment without a node among the candidates, and the active uid is the
\* uid of its last node, undefined (0) for the empty chain
C17_PartialResolution ==
    /\ ChainResolved(activePathChildren, activePath)
    /\ activeUID = (IF activePathChildren = << >> THEN 0
                    ELSE activePathChildren[Len(activePathChildren)])

\* a navigation to a path of which only a proper prefix resolves
C17_Witness ==
    /\ last.op = "navigate"
    /\ Len(activePathChildren) > 0
    /\ Len(activePathChildren) < Len(activePath)
    /\ activeUID = activePathChildren[Len(activePathChildren)]

\* C18: the first segment is matched against top-level nodes only, so the
\* first node of the resolved chain has the root as its parent
C18_StartsAtTopLevel ==
    activePathChildren # << >> => ParentOf(activePathChildren[1]) = INDEX_ROOT_KEY

-----------------------------------------------------------------------------
(* The filter, applied to every text of MatchTexts and every tag *)

FilterNext ==
    \/ Created /\ UNCHANGED << providerVars, sidebarVars >>
    \/ /\ \E text \in MatchTexts \cup {<< >>} : FilterInput(text)
       /\ UNCHANGED << providerVars, sidebarVars >>
    \/ DebounceInput /\ UNCHANGED << providerVars, sidebarVars >>
    \/ /\ \E values \in {<< >>} \cup {<< l >> : l \in FilterLabels} : SelectTags(values)
       /\ UNCHANGED << providerVars, sidebarVars >>
    \/ ClearFilters /\ UNCHANGED << providerVars, sidebarVars >>

FilterSpec == Init /\ [][FilterNext]_vars

\* the text occurs in the title, ignoring case
TitleContains(title, text) ==
    \E i \in 1..(Len(title) + 1), j \in 0..Len(title) :
        /\ j - i + 1 = Len(text)
        /\ \A k \in 1..Len(text) : ToLower(title[i + k - 1]) = ToLower(text[k])

\* the rule of a direct match, for the node with uid u
DirectMatch(u) ==
    /\ debouncedFilter = << >>
          \/ TitleContains(ChildrenMap(children, u).title, debouncedFilter)
    /\ selectedTags = << >>
          \/ TOPIC_TYPE_TO_TAG(ChildrenMap(children, u).type) \in Range(selectedTags)
    /\ ChildrenMap(children, u).type # "groupMarker"

\* C19: with a filter the matches are exactly the nodes whose title the pattern
\* tests true on (or no pattern), whose type maps to a selected tag (or no tag)
\* and that are no group marker; without a filter nothing matches
C19_MatchRule ==
    /\ hasFilter => \A u \in Uids(children) : u \in Matches <=> DirectMatch(u)
    /\ ~hasFilter => Matches = {}

\* a text filter that a group marker's title contains: the group marker is no
\* match, another node is
C19_Witness ==
    /\ last.op = "debounceInput"
    /\ debouncedFilter # << >>
    /\ selectedTags = << >>
    /\ Matches # {}
    /\ \E u \in Uids(children) \ Matches :
          /\ ChildrenMap(children, u).type = "groupMarker"
          /\ TitleContains(ChildrenMap(children, u).title, debouncedFilter)

-----------------------------------------------------------------------------
(* The message of the empty list *)

\* C20: for either value of the prop `errorFetching`, an empty list shows
\* exactly one message, the one of the filter if a filter is set, else the one
\* of the error if errorFetching, else the one of the empty technology, and a
\* list with nodes shows none
C20_MessagePriority ==
    \A error \in BOOLEAN :
        NoItemsWrapper(nodesToRender, hasFilter, error)
            = IF nodesToRender # << >> THEN {}
              ELSE IF hasFilter THEN {"No results matching your filter"}
              ELSE IF error THEN {"There was an error fetching the data"}
              ELSE {"Technology has no children"}

\* the filter has emptied the list of a technology with children
C20_Witness ==
    /\ mounted
    /\ last.op = "debounceInput" /\ last.ran
    /\ hasFilter
    /\ children # << >>
    /\ nodesToRender = << >>
    /\ NoItemsWrapper(nodesToRender, hasFilter, TRUE) = {"No results matching your filter"}

-----------------------------------------------------------------------------
(* Effect and frame of the toggles *)

\* the list without the uids of `gone`, the others in their order
Without(list, gone) == SelectUids(list, Range(list) \ gone)

\* `after` is `before` with `items` directly after the first `uid`
InsertedAfter(before, after, uid, items) ==
    \E i \in 1..Len(before) :
        /\ before[i] = uid
        /\ \A j \in 1..(i - 1) : before[j] # uid
        /\ Len(after) = Len(before) + Len(items)
        /\ \A j \in 1..i : after[j] = before[j]
        /\ \A j \in 1..Len(items) : after[i + j] = items[j]
        /\ \A j \in (i + 1)..Len(before) : after[j + Len(items)] = before[j]

\* the nodes that have the node among their ancestors
Below(uid) ==
    {v \in Uids(children) \ {uid} : uid \in Range(GetParents(children, v))}

\* the nodes of a set in document order, the order of `children`
InDocumentOrder(uids) == SelectUids(UidSeq(children), uids)

\* C27: toggle of an open node takes the node and its descendants out of the
\* open nodes and its descendants out of the list; the node stays listed and
\* everything else stays as it is, in its order
C27_ToggleClose ==
    [][\A u \in Uids(children) :
          (Toggle(u) /\ u \in openNodes)
             => /\ openNodes' = openNodes \ ({u} \cup Below(u))
                /\ nodesToRender' = Without(nodesToRender, Below(u))
                /\ u \in Range(nodesToRender')]_vars

\* B of [A, B, C] has been closed: the list is [A, B] and nothing is open
C27_Witness ==
    /\ last.op = "toggle"
    /\ children = ScenarioTree
    /\ ~hasFilter
    /\ nodesToRender = << 1, 2 >>
    /\ openNodes = {}

\* C28: toggle of a closed node of the list adds the node, and nothing else,
\* to the open nodes and puts its children, in their order, directly after
\* the node; the other nodes of the list keep their order
C28_ToggleOpen ==
    [][\A u \in Uids(children) :
          (Toggle(u) /\ u \notin openNodes)
             => /\ openNodes' = openNodes \cup {u}
                /\ InsertedAfter(nodesToRender, nodesToRender', u,
                                 ChildrenMap(children, u).childUIDs)]_vars

\* the first of two top-level nodes has been opened: its child stands between
\* the two
C28_Witness ==
    /\ last.op = "toggle"
    /\ children = MakeTree(<< 0, 1, 0, 3 >>)
    /\ openNodes = {1}
    /\ nodesToRender = << 1, 2, 3 >>

\* C29: toggleFullTree of a closed node opens the node and all its
\* descendants and puts the descendants, in document order, directly after
\* the node; of an open node, it closes the node and its descendants and
\* takes the descendants out of the list; the rest stays as it is
C29_ToggleSubtree ==
    [][\A u \in Uids(children) :
          /\ (ToggleFullTree(u) /\ u \notin openNodes)
                => /\ openNodes' = openNodes \cup {u} \cup Below(u)
                   /\ InsertedAfter(nodesToRender, nodesToRender', u,
                                    InDocumentOrder(Below(u)))
          /\ (ToggleFullTree(u) /\ u \in openNodes)
                => /\ openNodes' = openNodes \ ({u} \cup Below(u))
                   /\ nodesToRender' = Without(nodesToRender, Below(u))]_vars

\* the whole tree A > (B > C, D) has been opened from A
C29_Witness ==
    /\ last.op = "toggleFullTree"
    /\ children = MakeTree(<< 0, 1, 2, 1 >>)
    /\ openNodes = {1, 2, 3, 4}
    /\ nodesToRender = << 1, 2, 3, 4 >>

-----------------------------------------------------------------------------
(* The restore and the watchers it triggers *)

StoredFilter == StorageGet(storage, "filter", << >>)
StoredTags == StorageGet(storage, "selectedTags", << >>)
StoredOpenNodes == StorageGet(storage, "openNodes", {})

\* C30: a restore of a snapshot with a filter text or tags leaves the open
\* nodes and the list as they were stored: the watcher that the restored
\* filter and tags trigger returns at its guard, and the debounced call that
\* follows the restore changes nothing either
C30_RestoreKept ==
    [][/\ (/\ ~mounted /\ mounted'
           /\ last'.op = "restored"
           /\ (StoredFilter # << >> \/ StoredTags # << >>))
             => /\ ~last'.ran
                /\ openNodes' = StoredOpenNodes
                /\ nodesToRender' = StoredNodes
       /\ (/\ last.op = "restored"
           /\ (debouncedFilter # << >> \/ selectedTags # << >>)
           /\ last'.op = "debounceInput")
             => /\ ~last'.ran
                /\ UNCHANGED << openNodes, nodesToRender >>]_vars

\* a snapshot with a filter text has been restored; the watcher would have
\* opened other nodes
C30_Witness ==
    /\ last.op = "restored"
    /\ debouncedFilter # << >>
    /\ openNodes = StoredOpenNodes
    /\ nodesToRender = StoredNodes
    /\ openNodes # NodesToOpen(children, activePath, debouncedFilter, selectedTags)

-----------------------------------------------------------------------------
(* The provider of the tree, for every language, url and response *)

ProviderNext ==
    \/ MountProvider /\ UNCHANGED << cardVars, sidebarVars >>
    \/ /\ \E response \in Responses : FetchResolved(response)
       /\ UNCHANGED << cardVars, sidebarVars >>
    \/ FetchRejected /\ UNCHANGED << cardVars, sidebarVars >>

\* the provider with its props, next to a card and a sidebar that stay as
\* they are created
ProviderStart == CardIdle /\ ProviderInit /\ SidebarIdle

ProviderSpec == ProviderStart /\ [][ProviderNext]_vars

\* the list the claim looks the technology up in
RequestedList ==
    IF interfaceLanguage \in DOMAIN navigationIndex THEN navigationIndex[interfaceLanguage]
    ELSE IF "swift" \in DOMAIN navigationIndex THEN navigationIndex["swift"]
    ELSE << >>

\* mounting issues one fetch and shows isFetching; no step issues another one
OneFetch ==
    /\ (~providerMounted /\ providerMounted') => (fetchCalls' = 1 /\ isFetching')
    /\ providerMounted' => fetchCalls' = 1
    /\ request' = "pending" => isFetching'
    /\ request \in {"resolved", "rejected"} => request' = request

\* C21 as stated: one fetch on mount, and the request ends either with the
\* technology set and no error, or with the error set and no technology
C21_TwoOutcomes ==
    [][/\ OneFetch
       /\ request' = "resolved"
             => (~isFetching' /\ ~errorFetching' /\ slotTechnology' # NoTechnology)
       /\ request' = "rejected"
             => (~isFetching' /\ errorFetching' /\ slotTechnology' = NoTechnology)]_vars

\* C21, amended: one fetch on mount; a request that succeeds ends with no
\* error and the technology set exactly when the list has an entry with its
\* path; a request that fails ends with the error and no technology
C21_FetchStateMachine ==
    [][/\ OneFetch
       /\ request' = "resolved"
             => (/\ ~isFetching' /\ ~errorFetching'
                 /\ slotTechnology' # NoTechnology
                       <=> \E i \in 1..Len(RequestedList') :
                              RequestedList'[i].path = technologyUrl')
       /\ request' = "rejected"
             => (~isFetching' /\ errorFetching' /\ slotTechnology' = NoTechnology)]_vars

\* a request has succeeded after the one fetch of the mount, and no entry of
\* the list has the path of the technology
C21_Witness ==
    /\ providerMounted /\ fetchCalls = 1
    /\ request = "resolved"
    /\ ~isFetching /\ ~errorFetching
    /\ RequestedList # << >>
    /\ slotTechnology = NoTechnology

\* C22: after a successful fetch the technology is the entry with the path of
\* the technology in the list of the language, in the list of Swift when the
\* language has no list, and undefined without an error when no entry matches
C22_TechnologySelection ==
    request = "resolved"
        => /\ (\E i \in 1..Len(RequestedList) : RequestedList[i].path = technologyUrl)
                 => (/\ slotTechnology \in Range(RequestedList)
                     /\ slotTechnology.path = technologyUrl)
           /\ (\A i \in 1..Len(RequestedList) : RequestedList[i].path # technologyUrl)
                 => (slotTechnology = NoTechnology /\ ~errorFetching)

\* Objective-C is requested, the response has a list for Swift only
C22_Witness ==
    /\ request = "resolved"
    /\ interfaceLanguage = "objc"
    /\ "objc" \notin DOMAIN navigationIndex
    /\ slotTechnology = swiftIndexOne

-----------------------------------------------------------------------------
(* The shell of the sidebar *)

SidebarNext ==
    \/ MountSidebar /\ UNCHANGED << cardVars, providerVars >>
    \/ DestroySidebar /\ UNCHANGED << cardVars, providerVars >>
    \/ /\ \E isOpen \in BOOLEAN : SetOpenExternally(isOpen)
       /\ UNCHANGED << cardVars, providerVars >>
    \/ /\ \E type \in {"mousedown", "touchstart"} : StartDrag(type)
       /\ UNCHANGED << cardVars, providerVars >>
    \/ /\ \E kind \in {"mouse", "touch"}, x \in PointerPositions : PointerMove(kind, x)
       /\ UNCHANGED << cardVars, providerVars >>
    \/ /\ \E kind \in {"mouse", "touch"} : PointerEnd(kind)
       /\ UNCHANGED << cardVars, providerVars >>
    \/ /\ \E key \in {"Escape", "Enter"} : KeyDown(key)
       /\ UNCHANGED << cardVars, providerVars >>
    \/ RouteChange /\ UNCHANGED << cardVars, providerVars >>
    \/ /\ \E value \in BreakpointNames : BreakpointChange(value)
       /\ UNCHANGED << cardVars, providerVars >>
    \/ /\ \E ww \in WindowWidths : Resize(ww)
       /\ UNCHANGED << cardVars, providerVars >>
    \/ GetWidthInCheck /\ UNCHANGED << cardVars, providerVars >>

\* the sidebar with its props, window and storage, next to a card and a
\* provider that stay as they are created
SidebarStart ==
    /\ CardIdle
    /\ interfaceLanguage = "swift"
    /\ technologyUrl = "/technology/path"
    /\ ProviderIdle
    /\ SidebarInit

SidebarSpec == SidebarStart /\ [][SidebarNext]_vars

minWidth == MinWidth(breakpoint, windowWidth)
maxWidth == MaxWidth(breakpoint, windowWidth)

InRange(w, lo, hi) == w # NaN /\ lo <= w /\ w <= hi

\* a step of `handleDrag`
MoveStep == \E kind \in {"mouse", "touch"}, x \in PointerPositions : PointerMove(kind, x)

\* a step of `stopDrag`
EndStep == \E kind \in {"mouse", "touch"} : PointerEnd(kind)

\* C23: a new instance starts with the stored or the default width, limited to
\* the range of the large breakpoint, and after every move of a drag the width
\* is in the range of the breakpoint
C23_WidthInRange ==
    [][/\ sidebarPhase = "created"
             => /\ InRange(width, MinWidth("large", windowWidth),
                           MaxWidth("large", windowWidth))
                /\ \A w \in Range(sidebarStorage) :
                      InRange(w, MinWidth("large", windowWidth),
                              MaxWidth("large", windowWidth)) => width = w
       /\ (MoveStep /\ isDragging) => InRange(width', minWidth', maxWidth')]_vars

\* C24: a move changes the width only while dragging; the end of a drag clears
\* the flag, stores the width under 'sidebar' and emits width-change with it;
\* a move after it leaves the width as it is
C24_DragLifecycle ==
    [][/\ (MoveStep /\ width' # width) => isDragging
       /\ (MoveStep /\ ~isDragging) => width' = width
       /\ (EndStep /\ isDragging)
             => /\ ~isDragging'
                /\ width' = width
                /\ sidebarStorage' = << width >>
                /\ emitted' # {}
                /\ \A e \in emitted' : e.name = "width-change" /\ e.value = width]_vars

\* a drag has changed the width and has ended; the document still listens to
\* moves
C24_Witness ==
    /\ sidebarPhase = "mounted"
    /\ ~isDragging
    /\ listeners # {}
    /\ width # InitialWidth(<< >>, windowWidth)
    /\ sidebarStorage = << width >>
    /\ \E e \in emitted : e.name = "width-change" /\ e.value = width

\* C25: while mounted the scroll lock, the focus trap and the hiding are on
\* exactly when openExternally is true, and after destroy they are off
C25_LockFollowsOpen ==
    /\ sidebarPhase = "mounted" => engaged = (IF openExternally THEN Engaged ELSE Released)
    /\ sidebarPhase = "destroyed" => engaged = Released

\* C26: Escape, a route change and a change of the breakpoint to large emit
\* update:openExternally false exactly when openExternally is true; a change
\* of the breakpoint to medium or small does not emit it
C26_CloseWhenOpen ==
    [][/\ (KeyDown("Escape") \/ RouteChange \/ BreakpointChange("large"))
             => ((\E e \in emitted' : e.name = "update:openExternally" /\ e.isOpen = FALSE)
                    <=> openExternally)
       /\ (BreakpointChange("medium") \/ BreakpointChange("small"))
             => \A e \in emitted' : e.name # "update:openExternally"]_vars

\* the open sidebar is told to close when the breakpoint becomes large
C26_Witness ==
    /\ sidebarPhase = "mounted"
    /\ openExternally
    /\ breakpoint = "large" /\ checkPending
    /\ \E e \in emitted : e.name = "update:openExternally" /\ e.isOpen = FALSE

-----------------------------------------------------------------------------
(* The filter changes of the user *)

\* C31: every change of the debounced filter text or of the selected tags made
\* by a handler of the mounted card goes past the guard of `trackOpenNodes`
\* and leaves the visible list equal to the full recompute, whatever the
\* session storage holds
C31_UserChangeRuns ==
    [][(/\ mounted
        /\ last'.op \in FilterOps
        /\ (debouncedFilter' # debouncedFilter \/ selectedTags' # selectedTags))
        => (last'.ran /\ nodesToRender' = Recompute')]_vars

(* The filter field of a card on the technology page, with a delay of        *)
(* `debounceInput` that always ends                                         *)

\* the texts typed one after the other
TypedTexts == {<< >>, << "b" >>, << "b", "c" >>}

TypingStart ==
    /\ interfaceLanguage = "swift"
    /\ technologyUrl = "/technology/path"
    /\ ProviderIdle
    /\ SidebarIdle
    /\ technology = FirstTechnology
    /\ children \in Trees
    /\ activePath = << >>
    /\ filter = << >>
    /\ debouncedFilter = << >>
    /\ selectedTags = << >>
    /\ openNodes = {}
    /\ nodesToRender = << >>
    /\ storage = StorageEmpty
    /\ timer = << >>
    /\ mounted = FALSE
    /\ frames = FALSE
    /\ scrolled = << >>
    /\ last = [op |-> "init", ran |-> FALSE]

TypingNext ==
    \/ Created /\ UNCHANGED << providerVars, sidebarVars >>
    \/ /\ \E text \in TypedTexts : FilterInput(text)
       /\ UNCHANGED << providerVars, sidebarVars >>
    \/ DebounceInput /\ UNCHANGED << providerVars, sidebarVars >>
    \/ ClearFilters /\ UNCHANGED << providerVars, sidebarVars >>

\* the timer of `debounce` fires when its delay has passed
TypingSpec ==
    /\ TypingStart
    /\ [][TypingNext]_vars
    /\ WF_vars(DebounceInput /\ UNCHANGED << providerVars, sidebarVars >>)

\* a step of the filter field leaves the debounced text, the matches, the open
\* nodes and the visible list as they are
TextChangeOnly ==
    [][last'.op = "filterInput"
        => /\ filter' # filter
           /\ debouncedFilter' = debouncedFilter
           /\ filteredChildren' = filteredChildren
           /\ openNodes' = openNodes
           /\ nodesToRender' = nodesToRender]_vars

\* the pending call holds the last text, and gives it to the debounced text
Coalesced ==
    [][/\ timer' # << >> => timer' = << filter' >>
       /\ last'.op = "debounceInput" => (debouncedFilter' = filter /\ timer' = << >>)]_vars

\* C32: a change of the filter text changes neither the matches, the open nodes
\* nor the visible list before the delay of `debounceInput` has passed; the
\* changes inside the delay leave only the last text pending; and when the
\* steps of the filter field come to an end, the debounced text becomes the
\* text of the field for good
C32_Debounce ==
    /\ TextChangeOnly
    /\ Coalesced
    /\ <>[](last.op # "filterInput") => <>[](debouncedFilter = filter)

\* a second text is typed while the list shows the matches of the first
C32_Witness ==
    /\ last.op = "filterInput"
    /\ debouncedFilter = << "b" >>
    /\ timer = << << "b", "c" >> >>
    /\ nodesToRender # << >>
    /\ nodesToRender = Recompute

\* C33: clearFilters empties the filter text, the debounced text and the tags
\* in its own step, also while a call of `debounceInput` is pending; after its
\* watchers the open nodes are exactly the nodes of the active path and the
\* visible list is the unfiltered recompute; the pending call that is left
\* holds the empty text, and when it runs it changes nothing
C33_ClearFilters ==
    [][/\ last'.op = "clearFilters"
          => /\ filter' = << >> /\ debouncedFilter' = << >> /\ selectedTags' = << >>
             /\ last'.ran
             /\ UNCHANGED << children, activePath >>
             /\ openNodes' = Range(activePathChildren)
             /\ nodesToRender' = Recompute'
             /\ timer' \in {<< >>, << << >> >>}
       /\ (last.op = "clearFilters" /\ last'.op = "debounceInput")
          => /\ debouncedFilter' = << >>
             /\ UNCHANGED << filter, selectedTags, openNodes, nodesToRender, storage >>]_vars

\* filters were cleared while the first text typed in the session was pending
C33_Witness ==
    /\ last.op = "clearFilters"
    /\ timer = << << >> >>
    /\ "filter" \notin storage.keys
    /\ openNodes # {}
    /\ Len(nodesToRender) > 2

-----------------------------------------------------------------------------
(* The card with the frames that `scrollToElement` waits for.  The handlers *)
(* are taken in any order with the frames and with the debounce delay; a   *)
(* reload keeps the technology and its tree.                               *)

ScrollNext ==
    \/ Created /\ UNCHANGED << providerVars, sidebarVars >>
    \/ /\ \E uid \in Uids(children) : Toggle(uid)
       /\ UNCHANGED << providerVars, sidebarVars >>
    \/ /\ \E uid \in Uids(children) : ToggleFullTree(uid)
       /\ UNCHANGED << providerVars, sidebarVars >>
    \/ /\ \E ap \in ActivePaths(children) : Navigate(ap)
       /\ UNCHANGED << providerVars, sidebarVars >>
    \/ /\ \E text \in FilterTexts \cup {<< >>} : FilterInput(text)
       /\ UNCHANGED << providerVars, sidebarVars >>
    \/ DebounceInput /\ UNCHANGED << providerVars, sidebarVars >>
    \/ ClearFilters /\ UNCHANGED << providerVars, sidebarVars >>
    \/ ScrollToElement /\ UNCHANGED << providerVars, sidebarVars >>
    \/ /\ \E ap \in ActivePaths(children) : Destroy(ap, technology, children)
       /\ UNCHANGED << providerVars, sidebarVars >>

ScrollSpec == Init /\ [][ScrollNext]_vars

\* the handlers that end in `generateNodesToRender` or in a restore ask for a
\* scroll and issue none themselves; nothing else asks for one
ScrollRequested ==
    [][/\ (last'.ran \/ last'.op = "restored") => (frames' /\ scrolled' = << >>)
       /\ (frames' /\ ~frames) => (last'.ran \/ last'.op = "restored")
       /\ last'.op \in {"toggle", "toggleFullTree"}
          => (frames' = frames /\ scrolled' = << >>)]_vars

\* a command is issued only by the continuation of `scrollToElement`, which
\* runs only when a call waits for its frame
ScrollDeferred ==
    [][scrolled' # << >> => (frames /\ ~frames' /\ last'.op = "scrollToElement")]_vars

\* the active node is in the visible list
ActiveListed == activeUID \in Range(nodesToRender)

\* C34 as stated: a scroll is asked for by a recompute or a restore only, never
\* by a toggle, and issued a frame later; the index is 0 with a filter and the
\* index of the active node without; no command is issued when the active
\* node is not in the visible list
C34_DeferredScroll ==
    /\ ScrollRequested
    /\ ScrollDeferred
    /\ [][last'.op = "scrollToElement"
           => /\ ActiveListed
                 => scrolled' = << IF hasFilter THEN 0
                                   ELSE FindIndex(nodesToRender, activeUID) - 1 >>
              /\ ~ActiveListed => scrolled' = << >>]_vars

\* C34, amended: the command is not issued when no filter is active and the
\* active node is not in the visible list; with a filter the command is
\* issued with index 0 whether the active node is listed or not
C34_DeferredScrollToTop ==
    /\ ScrollRequested
    /\ ScrollDeferred
    /\ [][last'.op = "scrollToElement"
           => /\ hasFilter => scrolled' = << 0 >>
              /\ (~hasFilter /\ ActiveListed)
                 => scrolled' = << FindIndex(nodesToRender, activeUID) - 1 >>
              /\ (~hasFilter /\ ~ActiveListed) => scrolled' = << >>]_vars

\* the frame has passed with a filter on and the active node not listed: the
\* scroller was told to scroll to the top
C34_Witness ==
    /\ last.op = "scrollToElement"
    /\ hasFilter
    /\ activeUID # 0
    /\ ~ActiveListed
    /\ scrolled = << 0 >>

-----------------------------------------------------------------------------
(* The snapshot in the session storage *)

\* C35: after a mount that restores the snapshot, the visible list is what
\* `generateNodesToRender` computes from the restored open nodes, filter text
\* and tags
C35_RestoreConsistent ==
    [][last'.op = "restored" => nodesToRender' = Recompute']_vars

\* C36: once the card is created, every ancestor of an open node is open
C36_AncestorClosed == mounted => AncestorClosed

\* C37: once the card is created and its watchers have run, the storage holds
\* the debounced filter text and the selected tags of the card
C37_StoredFilterMirrors ==
    mounted => (StoredFilter = debouncedFilter /\ StoredTags = selectedTags)

-----------------------------------------------------------------------------
(* The toggles of a tree without filter *)

-----------------------------------------------------------------------------
(* The listeners of a drag *)

\* C39: a startDrag during a drag changes nothing, and whenever the dragging
\* flag is off the document has none of the listeners of a drag
C39_ListenersBalanced ==
    /\ [][\A type \in {"mousedown", "touchstart"} :
             (isDragging /\ StartDrag(type))
                => UNCHANGED << width, isDragging, isTouch, listeners,
                                sidebarStorage >>]_vars
    /\ [](~isDragging => listeners = {})

-----------------------------------------------------------------------------
(* The width after a change of the layout *)

\* C40: when the debounced `getWidthInCheck` has run after a resize or a
\* change of the breakpoint, the width is in the range of the breakpoint and
\* the window: the nearest limit if it was outside, unchanged otherwise
C40_Reclamped ==
    [][GetWidthInCheck
        => /\ InRange(width', minWidth, maxWidth)
           /\ InRange(width, minWidth, maxWidth) => width' = width
           /\ (width # NaN /\ width > maxWidth) => width' = maxWidth
           /\ (width # NaN /\ width < minWidth) => width' = minWidth]_vars

=============================================================================
